---- MODULE Spec2Model ----
(***************************************************************************)
(* Model of the in-browser video compressor queue (App component): the     *)
(* React state (queue, running, settings), the FFmpeg loader hook, the     *)
(* processNext effect with its asynchronous engine calls, and the queue    *)
(* store operations addFiles / updateItem / clearFinished / cancelItem.    *)
(* The reminder form (src/App.jsx) is a second component with its own      *)
(* state (status, loading, message); it has its own next-state relation    *)
(* ReminderNext, and neither component touches the other's state.  The     *)
(* form's text inputs only feed the request bodies and are left out.       *)
(*                                                                         *)
(* React is modelled as follows.  A state setter applies its (functional)  *)
(* update to the state at once.  `dirty' records that a dependency of the  *)
(* processNext effect changed since the effect last ran; RunEffect is the  *)
(* re-render plus the synchronous part of processNext (up to its first     *)
(* await), reading the state of that render.  Every await of processNext   *)
(* is a position of the invocation (inv[id].stage) and the resolution or   *)
(* rejection of the awaited promise is one action.                         *)
(***************************************************************************)
EXTENDS Integers, Sequences, FiniteSets, TLC

\* ------------------------------------------------------------------ bounds
MaxJobs == 2
MaxBatch == 2
MaxSettingChanges == 1
MaxStatusFetches == 2

\* ------------------------------------------------------------ input sets
FileNames == {"a.mp4", "b.mov"}
CrfInputs == {24, 28}
PresetInputs == {"medium", "fast"}
SizePresetInputs == {"720p", "original"}

\* payload of an engine progress event: progress in thousandths, or absent
ProgressPayloads ==
  { [defined |-> FALSE, milli |-> 0],
    [defined |-> TRUE, milli |-> 255],
    [defined |-> TRUE, milli |-> 1250] }

\* values an engine call can reject with: an Error object with a message
\* (possibly empty), or a plain string (the worker posts e.toString())
Errs ==
  { [kind |-> "Error", message |-> ""],
    [kind |-> "string", message |-> "Error: FS error"] }

\* null is the empty sequence, a present value v is <<v>>
null == << >>

VARIABLES
  ready,        \* useFFmpeg: ready
  ffmpegRef,    \* useFFmpeg: ffmpegRef.current is set
  loadingMsg,   \* useFFmpeg: loadingMsg
  loadPending,  \* useFFmpeg: load() has not settled yet
  queue,        \* App: queue
  running,      \* App: running
  crf,          \* App: crf
  preset,       \* App: preset
  sizePreset,   \* App: sizePreset
  idCounter,    \* App: idCounter.current
  dirty,        \* a dependency of the processNext effect changed
  inv,          \* live processNext invocations: id -> position and closure
  listeners,    \* ids whose 'progress' listener is registered on ffmpeg
  started,      \* history: ids in the order they entered 'processing'
  skippedQ,     \* history: ids skipped while 'queued'
  settingChanges, \* number of setting changes made so far (bounded)
  calls,        \* history: per id, how often writeFile and exec were called
  status,       \* reminder form: status
  loading,      \* reminder form: loading
  message,      \* reminder form: message, as the parts of the template
  call,         \* reminder form: the running save/trigger handler, or null
  statusCalls   \* reminder form: fetchStatus calls of the mount effect and
                \* the Refresh button that have not settled

vars == << ready, ffmpegRef, loadingMsg, loadPending, queue, running, crf,
           preset, sizePreset, idCounter, dirty, inv, listeners, started,
           skippedQ, settingChanges, calls, status, loading, message, call,
           statusCalls >>

formVars == << status, loading, message, call, statusCalls >>

loadVars == << ready, ffmpegRef, loadingMsg, loadPending >>
settingVars == << crf, preset, sizePreset, settingChanges >>

\* ----------------------------------------------------------- pure helpers
Range(s) == { s[i] : i \in 1..Len(s) }

presets ==
  << [id |-> "1080p", scale |-> <<1920>>],
     [id |-> "720p", scale |-> <<1280>>],
     [id |-> "480p", scale |-> <<854>>],
     [id |-> "original", scale |-> null] >>

\* presets.find(p => p.id === sizePreset)?.scale ?? null
selectedScale(sp) ==
  IF \E i \in 1..Len(presets) : presets[i].id = sp
    THEN presets[CHOOSE i \in 1..Len(presets) :
                   /\ presets[i].id = sp
                   /\ \A j \in 1..(i-1) : presets[j].id # sp].scale
    ELSE null

\* Math.round(x) for x = n/10, i.e. floor(x + 1/2)
MathRound10(n) == (n + 5) \div 10

\* Math.round((progress || 0) * 100)
ProgressPercent(p) == IF p.defined THEN MathRound10(p.milli) ELSE 0

\* String(err)
StringOf(err) ==
  IF err.kind = "string" THEN err.message
  ELSE IF err.message = "" THEN "Error" ELSE "Error: " \o err.message

ErrTextNoFallback(err) ==
  IF err.kind = "Error" THEN <<err.message>> ELSE null

\* err?.message || String(err)
ErrText(err) ==
  IF err.kind = "Error" /\ err.message # "" THEN <<err.message>>
  ELSE <<StringOf(err)>>

findIndexLast(q) ==
  IF \E i \in 1..Len(q) : q[i].status = "queued"
    THEN CHOOSE i \in 1..Len(q) :
           /\ q[i].status = "queued"
           /\ \A j \in (i+1)..Len(q) : q[j].status # "queued"
    ELSE 0

findIndexNotFinished(q) ==
  IF \E i \in 1..Len(q) : q[i].status \in {"queued", "skipped"}
    THEN CHOOSE i \in 1..Len(q) :
           /\ q[i].status \in {"queued", "skipped"}
           /\ \A j \in 1..(i-1) : q[j].status \notin {"queued", "skipped"}
    ELSE 0

findIndexPending(q) ==
  IF \E i \in 1..Len(q) : q[i].status \in {"queued", "processing"}
    THEN CHOOSE i \in 1..Len(q) :
           /\ q[i].status \in {"queued", "processing"}
           /\ \A j \in 1..(i-1) : q[j].status \notin {"queued", "processing"}
    ELSE 0

\* queue.findIndex(item => item.status === 'queued'), 1-based, 0 for -1
findIndex(q) ==
  IF \E i \in 1..Len(q) : q[i].status = "queued"
    THEN CHOOSE i \in 1..Len(q) :
           /\ q[i].status = "queued"
           /\ \A j \in 1..(i-1) : q[j].status # "queued"
    ELSE 0

MayStartIgnoringRunning(rdy, ff, run) == rdy /\ ff

\* the two early returns of processNext
MayStart(rdy, ff, run) == rdy /\ ff /\ run

\* Array.from(files).map(f => ({...})) with ids from idCounter.current++
NewItems(files, counter) ==
  [ k \in 1..Len(files) |->
      [ id |-> counter + (k - 1),
        name |-> files[k],
        status |-> "queued",
        progress |-> 0,
        outputUrl |-> null,
        error |-> null ] ]

appendFront(prev, items) == items \o prev

\* [...prev, ...items]
append(prev, items) == prev \o items

\* { ...it, ...patch }
Merge(it, patch) ==
  [ f \in DOMAIN it |-> IF f \in DOMAIN patch THEN patch[f] ELSE it[f] ]

updateItemUpsert(prev, id, patch) ==
  IF \E i \in 1..Len(prev) : prev[i].id = id
    THEN [ i \in 1..Len(prev) |->
             IF prev[i].id = id THEN Merge(prev[i], patch) ELSE prev[i] ]
    ELSE Append(prev, Merge([ id |-> id, name |-> "", status |-> "queued",
                              progress |-> 0, outputUrl |-> null,
                              error |-> null ], patch))

\* prev.map(it => it.id === id ? { ...it, ...patch } : it)
updateItem(prev, id, patch) ==
  [ i \in 1..Len(prev) |->
      IF prev[i].id = id THEN Merge(prev[i], patch) ELSE prev[i] ]

IsFinishedOrSkipped(it) == it.status \in {"done", "error", "skipped"}

\* the predicate of clearFinished's filter, negated
IsFinished(it) == it.status = "done" \/ it.status = "error"

KeepUnfinished(it) == ~IsFinished(it)

\* prev.filter(it => it.status !== 'done' && it.status !== 'error')
removeFinished(prev) == SelectSeq(prev, KeepUnfinished)

DepsChangedNoQueue(queueSet, otherChanged) == otherChanged

\* the effect's dependency list: a setQueue always yields a new array
DepsChanged(queueSet, otherChanged) == queueSet \/ otherChanged

SkipShownAlways(it) == TRUE

\* !['done','error','skipped'].includes(item.status): the Skip button is shown
SkipShown(it) == it.status \notin {"done", "error", "skipped"}

ClosureSettingsCurrent(closed, current) == current

\* selectedScale, crf and preset read by processNext are the values of the
\* render that created it (closed), not those of the latest render (current)
ClosureSettings(closed, current) == closed

Ids(q) == { q[i].id : i \in 1..Len(q) }
ItemOf(q, id) == q[CHOOSE i \in 1..Len(q) : q[i].id = id]

Batches == UNION { [1..n -> FileNames] : n \in 1..MaxBatch }

\* -------------------------------------------------------------------- Init
Init ==
  /\ ready = FALSE
  /\ ffmpegRef = FALSE
  /\ loadingMsg = "Fetching FFmpeg core"
  /\ loadPending = TRUE
  /\ queue = << >>
  /\ running = FALSE
  /\ crf = 24
  /\ preset = "medium"
  /\ sizePreset = "720p"
  /\ idCounter = 0
  /\ dirty = TRUE
  /\ inv = << >>
  /\ listeners = {}
  /\ started = << >>
  /\ skippedQ = {}
  /\ settingChanges = 0
  /\ calls = [ id \in 0..(MaxJobs - 1) |-> [ writeFile |-> 0, exec |-> 0 ] ]
  /\ status = null
  /\ loading = FALSE
  /\ message = << >>
  /\ call = null
  /\ statusCalls = << [ stage |-> "fetch", res |-> null ] >>

\* ------------------------------------------------------------- useFFmpeg
\* load() resolves: ffmpegRef.current = ffmpeg; setReady(true)
LoadOk ==
  /\ loadPending
  /\ loadPending' = FALSE
  /\ ffmpegRef' = TRUE
  /\ ready' = TRUE
  /\ loadingMsg' = ""
  /\ dirty' = DepsChanged(FALSE, TRUE)
  /\ UNCHANGED << calls, formVars >>
  /\ UNCHANGED << queue, running, settingVars, idCounter, inv, listeners,
                  started, skippedQ >>

LoadFailRetry ==
  /\ loadPending
  /\ loadPending' = TRUE
  /\ loadingMsg' = "Failed to load FFmpeg"
  /\ UNCHANGED << calls, formVars >>
  /\ UNCHANGED << ready, ffmpegRef, queue, running, settingVars, idCounter,
                  dirty, inv, listeners, started, skippedQ >>

\* load() throws: only the message is set
LoadFail ==
  /\ loadPending
  /\ loadPending' = FALSE
  /\ loadingMsg' = "Failed to load FFmpeg"
  /\ UNCHANGED << calls, formVars >>
  /\ UNCHANGED << ready, ffmpegRef, queue, running, settingVars, idCounter,
                  dirty, inv, listeners, started, skippedQ >>

\* ------------------------------------------------------- user operations
\* The controls are rendered only when ready (the !ready branch of the JSX
\* shows the loading panel instead).

\* onDrop / onBrowse -> addFiles(files)
addFiles(files) ==
  /\ ready
  /\ idCounter + Len(files) <= MaxJobs
  /\ queue' = append(queue, NewItems(files, idCounter))
  /\ idCounter' = idCounter + Len(files)
  /\ dirty' = DepsChanged(TRUE, FALSE)
  /\ UNCHANGED << calls, formVars >>
  /\ UNCHANGED << loadVars, running, settingVars, inv, listeners, started,
                  skippedQ >>

\* Start button: shown when the queue is not empty and !running
Start ==
  /\ ready
  /\ Len(queue) > 0
  /\ ~running
  /\ running' = TRUE
  /\ dirty' = DepsChanged(FALSE, TRUE)
  /\ UNCHANGED << calls, formVars >>
  /\ UNCHANGED << loadVars, queue, settingVars, idCounter, inv, listeners,
                  started, skippedQ >>

\* Pause button: shown when the queue is not empty and running
Pause ==
  /\ ready
  /\ Len(queue) > 0
  /\ running
  /\ running' = FALSE
  /\ dirty' = DepsChanged(FALSE, TRUE)
  /\ UNCHANGED << calls, formVars >>
  /\ UNCHANGED << loadVars, queue, settingVars, idCounter, inv, listeners,
                  started, skippedQ >>

\* range input -> setCrf(Number(e.target.value))
SetCrf(v) ==
  /\ ready
  /\ v = crf \/ settingChanges < MaxSettingChanges
  /\ crf' = v
  /\ settingChanges' = settingChanges + (IF v = crf THEN 0 ELSE 1)
  /\ dirty' = (dirty \/ DepsChanged(FALSE, v # crf))
  /\ UNCHANGED << calls, formVars >>
  /\ UNCHANGED << loadVars, queue, running, preset, sizePreset, idCounter,
                  inv, listeners, started, skippedQ >>

\* select -> setPreset(e.target.value)
SetPreset(v) ==
  /\ ready
  /\ v = preset \/ settingChanges < MaxSettingChanges
  /\ preset' = v
  /\ settingChanges' = settingChanges + (IF v = preset THEN 0 ELSE 1)
  /\ dirty' = (dirty \/ DepsChanged(FALSE, v # preset))
  /\ UNCHANGED << calls, formVars >>
  /\ UNCHANGED << loadVars, queue, running, crf, sizePreset, idCounter,
                  inv, listeners, started, skippedQ >>

\* select -> setSizePreset(e.target.value); selectedScale is the dependency
SetSizePreset(v) ==
  /\ ready
  /\ v = sizePreset \/ settingChanges < MaxSettingChanges
  /\ sizePreset' = v
  /\ settingChanges' = settingChanges + (IF v = sizePreset THEN 0 ELSE 1)
  /\ dirty' = (dirty \/
               DepsChanged(FALSE, selectedScale(v) # selectedScale(sizePreset)))
  /\ UNCHANGED << calls, formVars >>
  /\ UNCHANGED << loadVars, queue, running, crf, preset, idCounter,
                  inv, listeners, started, skippedQ >>

\* Skip button (shown unless done, error or skipped) -> cancelItem(id)
cancelItem(id) ==
  /\ ready
  /\ id \in Ids(queue)
  /\ SkipShown(ItemOf(queue, id))
  /\ queue' = updateItem(queue, id, [status |-> "skipped"])
  /\ skippedQ' = IF ItemOf(queue, id).status = "queued"
                   THEN skippedQ \cup {id} ELSE skippedQ
  /\ dirty' = DepsChanged(TRUE, FALSE)
  /\ UNCHANGED << calls, formVars >>
  /\ UNCHANGED << loadVars, running, settingVars, idCounter, inv, listeners,
                  started >>

\* Clear finished button (shown when the queue is not empty)
clearFinished ==
  /\ ready
  /\ Len(queue) > 0
  /\ queue' = removeFinished(queue)
  /\ dirty' = DepsChanged(TRUE, FALSE)
  /\ UNCHANGED << calls, formVars >>
  /\ UNCHANGED << loadVars, running, settingVars, idCounter, inv, listeners,
                  started, skippedQ >>

\* ------------------------------------------------- the processNext effect
\* Re-render and effect run: processNext up to its first await.
RunEffect ==
  /\ dirty
  /\ LET idx == findIndex(queue) IN
     IF MayStart(ready, ffmpegRef, running) /\ idx # 0
       THEN LET item == queue[idx] IN
            /\ queue' = updateItem(queue, item.id,
                 [status |-> "processing", progress |-> 0, error |-> null])
            /\ inv' = [ i \in (DOMAIN inv) \cup {item.id} |->
                          IF i = item.id
                            THEN [ stage |-> "arrayBuffer",
                                   selectedScale |-> selectedScale(sizePreset),
                                   crf |-> crf,
                                   preset |-> preset ]
                            ELSE inv[i] ]
            /\ started' = Append(started, item.id)
            /\ dirty' = DepsChanged(TRUE, FALSE)
       ELSE /\ dirty' = FALSE
            /\ UNCHANGED << queue, inv, started >>
  /\ UNCHANGED << calls, formVars >>
  /\ UNCHANGED << loadVars, running, settingVars, idCounter, listeners,
                  skippedQ >>

\* ----------------------------------------------- engine call resolutions
AtStage(id, st) == id \in DOMAIN inv /\ inv[id].stage = st
Advance(id, st) == inv' = [inv EXCEPT ![id].stage = st]
Finish(id) == inv' = [ i \in (DOMAIN inv) \ {id} |-> inv[i] ]

engineFrame ==
  << loadVars, running, settingVars, idCounter, started, skippedQ, formVars >>

\* catch (err): updateItem(item.id, { status: 'error', error: ... })
Catch(id, err) ==
  /\ queue' = updateItem(queue, id,
                [status |-> "error", error |-> ErrText(err)])
  /\ Finish(id)
  /\ dirty' = DepsChanged(TRUE, FALSE)

\* the argument list of lines 97-107, built from the values the invocation
\* closed over; the fixed arguments are left out
execArgs(id, scale, q, speed) ==
  << <<"-i">>, <<"in", id>> >>
    \o (IF scale # null THEN << <<"-vf">>, <<"scale", scale[1]>> >> ELSE << >>)
    \o << <<"-crf">>, <<"String", q>>, <<"-preset">>, <<speed>>, <<"out", id>> >>

\* the settings a render passes to the effect it creates
CurrentSettings ==
  [ selectedScale |-> selectedScale(sizePreset), crf |-> crf,
    preset |-> preset ]

\* item.file.arrayBuffer() resolves: ffmpeg.writeFile is called
ArrayBufferOk(id) ==
  /\ AtStage(id, "arrayBuffer")
  /\ Advance(id, "writeFile")
  /\ calls' = [calls EXCEPT ![id].writeFile = @ + 1]
  /\ UNCHANGED << engineFrame, queue, dirty, listeners >>

ArrayBufferFail(id, err) ==
  /\ AtStage(id, "arrayBuffer")
  /\ Catch(id, err)
  /\ UNCHANGED << engineFrame, calls, listeners >>

\* writeFile resolves: ffmpeg.on('progress', ...) then ffmpeg.exec(args)
WriteFileOk(id) ==
  /\ AtStage(id, "writeFile")
  /\ listeners' = listeners \cup {id}
  /\ LET s == ClosureSettings(inv[id], CurrentSettings) IN
     inv' = [inv EXCEPT ![id] =
               [ stage |-> "exec",
                 args |-> execArgs(id, s.selectedScale, s.crf, s.preset) ]]
  /\ calls' = [calls EXCEPT ![id].exec = @ + 1]
  /\ UNCHANGED << engineFrame, queue, dirty >>

WriteFileFail(id, err) ==
  /\ AtStage(id, "writeFile")
  /\ Catch(id, err)
  /\ UNCHANGED << engineFrame, calls, listeners >>

RECURSIVE ApplyProgress(_, _, _)
\* every registered listener runs updateItem(item.id, { progress: ... })
ApplyProgress(q, ids, pct) ==
  IF ids = {} THEN q
  ELSE LET id == CHOOSE x \in ids : TRUE IN
       ApplyProgress(updateItem(q, id, [progress |-> pct]), ids \ {id}, pct)

\* the engine emits a progress event during an exec
Progress(p) ==
  /\ \E id \in DOMAIN inv : inv[id].stage = "exec"
  /\ queue' = ApplyProgress(queue, listeners, ProgressPercent(p))
  /\ dirty' = (dirty \/ DepsChanged(listeners # {}, FALSE))
  /\ UNCHANGED << engineFrame, calls, inv, listeners >>

\* exec resolves: ffmpeg.readFile(outputName) is called
ExecOk(id) ==
  /\ AtStage(id, "exec")
  /\ inv' = [inv EXCEPT ![id] = [stage |-> "readFile"]]
  /\ UNCHANGED << engineFrame, calls, queue, dirty, listeners >>

ExecFail(id, err) ==
  /\ AtStage(id, "exec")
  /\ Catch(id, err)
  /\ UNCHANGED << engineFrame, calls, listeners >>

\* readFile resolves: the blob URL is made, the item is set 'done', and
\* deleteFile(inputName) is called
ReadFileOk(id) ==
  /\ AtStage(id, "readFile")
  /\ queue' = updateItem(queue, id,
       [status |-> "done", progress |-> 100, outputUrl |-> <<id>>])
  /\ Advance(id, "deleteIn")
  /\ dirty' = DepsChanged(TRUE, FALSE)
  /\ UNCHANGED << engineFrame, calls, listeners >>

ReadFileFail(id, err) ==
  /\ AtStage(id, "readFile")
  /\ Catch(id, err)
  /\ UNCHANGED << engineFrame, calls, listeners >>

\* deleteFile(inputName) resolves: deleteFile(outputName) is called
DeleteInOk(id) ==
  /\ AtStage(id, "deleteIn")
  /\ Advance(id, "deleteOut")
  /\ UNCHANGED << engineFrame, calls, queue, dirty, listeners >>

DeleteInFailEscalates(id, err) ==
  /\ AtStage(id, "deleteIn")
  /\ Catch(id, err)
  /\ UNCHANGED << engineFrame, calls, listeners >>

\* deleteFile(inputName) rejects: the empty inner catch swallows it and
\* deleteFile(outputName) is called
DeleteInFail(id, err) ==
  /\ AtStage(id, "deleteIn")
  /\ Advance(id, "deleteOut")
  /\ UNCHANGED << engineFrame, calls, queue, dirty, listeners >>

\* deleteFile(outputName) resolves: processNext ends
DeleteOutOk(id) ==
  /\ AtStage(id, "deleteOut")
  /\ Finish(id)
  /\ UNCHANGED << engineFrame, calls, queue, dirty, listeners >>

\* deleteFile(outputName) rejects: the empty inner catch swallows it and
\* processNext ends
DeleteOutFail(id, err) ==
  /\ AtStage(id, "deleteOut")
  /\ Finish(id)
  /\ UNCHANGED << engineFrame, calls, queue, dirty, listeners >>

JobIds == 0..(MaxJobs - 1)

EngineStep ==
  \/ \E id \in JobIds : ArrayBufferOk(id)
  \/ \E id \in JobIds, err \in Errs : ArrayBufferFail(id, err)
  \/ \E id \in JobIds : WriteFileOk(id)
  \/ \E id \in JobIds, err \in Errs : WriteFileFail(id, err)
  \/ \E id \in JobIds : ExecOk(id)
  \/ \E id \in JobIds, err \in Errs : ExecFail(id, err)
  \/ \E id \in JobIds : ReadFileOk(id)
  \/ \E id \in JobIds, err \in Errs : ReadFileFail(id, err)
  \/ \E id \in JobIds : DeleteInOk(id)
  \/ \E id \in JobIds, err \in Errs : DeleteInFail(id, err)
  \/ \E id \in JobIds : DeleteOutOk(id)
  \/ \E id \in JobIds, err \in Errs : DeleteOutFail(id, err)

UserStep ==
  \/ \E files \in Batches : addFiles(files)
  \/ Start
  \/ Pause
  \/ \E v \in CrfInputs : SetCrf(v)
  \/ \E v \in PresetInputs : SetPreset(v)
  \/ \E v \in SizePresetInputs : SetSizePreset(v)
  \/ \E id \in JobIds : cancelItem(id)
  \/ clearFinished

Next ==
  \/ LoadOk
  \/ LoadFail
  \/ UserStep
  \/ RunEffect
  \/ EngineStep
  \/ \E p \in ProgressPayloads : Progress(p)

Spec == Init /\ [][Next]_vars

\* The browser runs a scheduled re-render and its effect, and the engine
\* settles every call it accepted.
FairSpec == Spec /\ WF_vars(RunEffect) /\ WF_vars(EngineStep)

TypeOK ==
  /\ ready \in BOOLEAN /\ running \in BOOLEAN /\ dirty \in BOOLEAN
  /\ idCounter \in 0..MaxJobs
  /\ \A i \in 1..Len(queue) : queue[i].id \in JobIds
  /\ \A id \in DOMAIN calls :
       calls[id].writeFile \in Nat /\ calls[id].exec \in Nat

\* --------------------------------------------------------- reminder form
queueVars == << loadVars, queue, running, settingVars, idCounter, dirty, inv,
                listeners, started, skippedQ, calls >>

Handlers == {"saveUser", "saveRule", "saveToken", "triggerNow"}
SaveHandlers == {"saveUser", "saveRule", "saveToken"}

\* response bodies: the text, whether it parses as JSON, and the parsed
\* object's `results' (stringified) when it has one
Bodies ==
  { [ text |-> "{\"results\":[\"sent\"]}", json |-> TRUE,
      results |-> <<"[\"sent\"]">> ],
    [ text |-> "{\"detail\":\"Not Found\"}", json |-> TRUE, results |-> null ],
    [ text |-> "Internal Server Error", json |-> FALSE, results |-> null ] }

\* what fetch() resolves with: res.ok and the body
Responses == [ ok : BOOLEAN, body : Bodies ]

\* e.message of what fetch() or res.text() rejects with
FetchErrs == {"Failed to fetch"}

\* e.message of the SyntaxError res.json() rejects with
JsonErr == "Unexpected token"

\* `Error: ${e.message}`
ErrorMessage(m) == << "Error: ", m >>

\* JSON.stringify(data.results || data)
Stringify(body) == IF body.results # null THEN body.results[1] ELSE body.text

\* `Triggered. Results: ${JSON.stringify(data.results || data)}`
TriggeredMessage(body) == << "Triggered. Results: ", Stringify(body) >>

SavedMessage(fn) ==
  IF fn = "saveUser" THEN << "Saved user details" >>
  ELSE IF fn = "saveRule" THEN << "Saved reminder rule" >>
  ELSE << "Saved Google refresh token" >>

\* fetchStatus: setStatus(data) and setStatus({ error: e.message })
StatusData(body) == << "data", body.text >>
StatusError(m) == << "error", m >>

CallAt(st) == call # null /\ call[1].stage = st

\* setLoading(true); setMessage(''); fetch(...) is called (button enabled)
Begin(fn) ==
  /\ ~loading
  /\ loading' = TRUE
  /\ message' = << >>
  /\ call' = << [ fn |-> fn, stage |-> "fetch", res |-> null,
                  statusRes |-> null ] >>
  /\ UNCHANGED << status, statusCalls, queueVars >>

saveUser == Begin("saveUser")
saveRule == Begin("saveRule")
saveToken == Begin("saveToken")
triggerNow == Begin("triggerNow")

\* catch (e) { setMessage(`Error: ${e.message}`) } finally { setLoading(false) }
CatchFinally(m) ==
  /\ message' = ErrorMessage(m)
  /\ loading' = FALSE
  /\ call' = null
  /\ UNCHANGED << status, statusCalls, queueVars >>

\* the POST of a save handler resolves: on !res.ok res.text() is awaited,
\* otherwise setMessage('Saved ...') and fetchStatus() is called and awaited
PostResolve(res) ==
  /\ CallAt("fetch")
  /\ call[1].fn \in SaveHandlers
  /\ IF res.ok
       THEN /\ message' = SavedMessage(call[1].fn)
            /\ call' = << [ call[1] EXCEPT !.stage = "statusFetch",
                                           !.res = <<res>> ] >>
       ELSE /\ call' = << [ call[1] EXCEPT !.stage = "text",
                                           !.res = <<res>> ] >>
            /\ UNCHANGED message
  /\ UNCHANGED << status, loading, statusCalls, queueVars >>

\* the POST of triggerNow resolves: res.json() is awaited, res.ok is not read
TriggerResolve(res) ==
  /\ CallAt("fetch")
  /\ call[1].fn = "triggerNow"
  /\ call' = << [ call[1] EXCEPT !.stage = "json", !.res = <<res>> ] >>
  /\ UNCHANGED << status, loading, message, statusCalls, queueVars >>

\* the POST rejects
FetchReject(m) ==
  /\ CallAt("fetch")
  /\ CatchFinally(m)

\* res.text() resolves: throw new Error(text)
TextResolve ==
  /\ CallAt("text")
  /\ CatchFinally(call[1].res[1].body.text)

TextReject(m) ==
  /\ CallAt("text")
  /\ CatchFinally(m)

\* res.json() of triggerNow resolves: setMessage(`Triggered. ...`); finally
TriggerJsonResolve ==
  /\ CallAt("json")
  /\ call[1].res[1].body.json
  /\ message' = TriggeredMessage(call[1].res[1].body)
  /\ loading' = FALSE
  /\ call' = null
  /\ UNCHANGED << status, statusCalls, queueVars >>

TriggerJsonReject ==
  /\ CallAt("json")
  /\ ~call[1].res[1].body.json
  /\ CatchFinally(JsonErr)

\* the handler ends after its awaited fetchStatus(): finally { setLoading(false) }
AwaitedStatusSettles(st) ==
  /\ status' = st
  /\ loading' = FALSE
  /\ call' = null
  /\ UNCHANGED << message, statusCalls, queueVars >>

\* fetchStatus awaited by a save handler: fetch resolves, res.json() awaited
AwaitedStatusResolve(res) ==
  /\ CallAt("statusFetch")
  /\ call' = << [ call[1] EXCEPT !.stage = "statusJson",
                                 !.statusRes = <<res>> ] >>
  /\ UNCHANGED << status, loading, message, statusCalls, queueVars >>

AwaitedStatusReject(m) ==
  /\ CallAt("statusFetch")
  /\ AwaitedStatusSettles(StatusError(m))

AwaitedStatusJsonResolve ==
  /\ CallAt("statusJson")
  /\ call[1].statusRes[1].body.json
  /\ AwaitedStatusSettles(StatusData(call[1].statusRes[1].body))

AwaitedStatusJsonReject ==
  /\ CallAt("statusJson")
  /\ ~call[1].statusRes[1].body.json
  /\ AwaitedStatusSettles(StatusError(JsonErr))

RemoveAt(s, i) == SubSeq(s, 1, i - 1) \o SubSeq(s, i + 1, Len(s))

StatusCallAt(i, st) == i \in 1..Len(statusCalls) /\ statusCalls[i].stage = st

\* the Refresh button: fetchStatus()
Refresh ==
  /\ Len(statusCalls) < MaxStatusFetches
  /\ statusCalls' = Append(statusCalls, [ stage |-> "fetch", res |-> null ])
  /\ UNCHANGED << status, loading, message, call, queueVars >>

\* fetchStatus of the mount effect or of Refresh
StatusResolve(i, res) ==
  /\ StatusCallAt(i, "fetch")
  /\ statusCalls' = [statusCalls EXCEPT ![i] =
                       [ stage |-> "json", res |-> <<res>> ]]
  /\ UNCHANGED << status, loading, message, call, queueVars >>

StatusReject(i, m) ==
  /\ StatusCallAt(i, "fetch")
  /\ status' = StatusError(m)
  /\ statusCalls' = RemoveAt(statusCalls, i)
  /\ UNCHANGED << loading, message, call, queueVars >>

StatusJsonResolve(i) ==
  /\ StatusCallAt(i, "json")
  /\ statusCalls[i].res[1].body.json
  /\ status' = StatusData(statusCalls[i].res[1].body)
  /\ statusCalls' = RemoveAt(statusCalls, i)
  /\ UNCHANGED << loading, message, call, queueVars >>

StatusJsonReject(i) ==
  /\ StatusCallAt(i, "json")
  /\ ~statusCalls[i].res[1].body.json
  /\ status' = StatusError(JsonErr)
  /\ statusCalls' = RemoveAt(statusCalls, i)
  /\ UNCHANGED << loading, message, call, queueVars >>

ReminderNext ==
  \/ saveUser
  \/ saveRule
  \/ saveToken
  \/ triggerNow
  \/ \E res \in Responses : PostResolve(res)
  \/ \E res \in Responses : TriggerResolve(res)
  \/ \E m \in FetchErrs : FetchReject(m)
  \/ TextResolve
  \/ \E m \in FetchErrs : TextReject(m)
  \/ TriggerJsonResolve
  \/ TriggerJsonReject
  \/ \E res \in Responses : AwaitedStatusResolve(res)
  \/ \E m \in FetchErrs : AwaitedStatusReject(m)
  \/ AwaitedStatusJsonResolve
  \/ AwaitedStatusJsonReject
  \/ Refresh
  \/ \E i \in 1..MaxStatusFetches, res \in Responses : StatusResolve(i, res)
  \/ \E i \in 1..MaxStatusFetches, m \in FetchErrs : StatusReject(i, m)
  \/ \E i \in 1..MaxStatusFetches : StatusJsonResolve(i)
  \/ \E i \in 1..MaxStatusFetches : StatusJsonReject(i)

ReminderSpec == Init /\ [][ReminderNext]_vars


\* ------------------------------------------------------------ vocabulary
StatusOf(id) == ItemOf(queue, id).status
InQueue(id) == id \in Ids(queue)
HasStatus(id, st) == InQueue(id) /\ StatusOf(id) = st
ProcessingCount ==
  Cardinality({ i \in 1..Len(queue) : queue[i].status = "processing" })
EngineBusy ==
  { id \in DOMAIN inv : inv[id].stage \in {"writeFile", "exec", "readFile"} }

\* ---------------------------------------------------------------- claims

\* C1: in every reachable state at most one job has status 'processing'.
\* The effect has no such check: each re-run starts the next queued job.
C1_AtMostOneProcessing == ProcessingCount <= 1

\* C2: at most one processNext invocation is between its writeFile call and
\* the resolution of its last engine call (exec / readFile).
C2_OneEngineExecution == Cardinality(EngineBusy) <= 1

\* C3: jobs enter 'processing' in the order they were appended (ids are
\* assigned in append order): the start history is strictly increasing.
C3_FifoStart ==
  \A i, j \in 1..Len(started) : i < j => started[i] < started[j]

C3_Witness ==
  /\ Len(started) >= 2
  /\ Len(queue) < idCounter

\* C4: once a started job is 'skipped', no later step changes its status,
\* progress or outputUrl (events of its execution are discarded).
C4_SkippedEventsDiscarded ==
  [][ \A i \in 1..Len(queue) :
        (queue[i].status = "skipped" /\ queue[i].id \in Range(started)) =>
          \A j \in 1..Len(queue') :
            queue'[j].id = queue[i].id =>
              /\ queue'[j].status = "skipped"
              /\ queue'[j].progress = queue[i].progress
              /\ queue'[j].outputUrl = queue[i].outputUrl ]_vars

\* C5: a job skipped while 'queued' is never started, no invocation or
\* engine call exists for it, and its status stays 'skipped'.
C5_SkippedQueuedNeverSelected ==
  \A id \in skippedQ :
    /\ id \notin Range(started)
    /\ id \notin DOMAIN inv
    /\ id \notin listeners
    /\ InQueue(id) => StatusOf(id) = "skipped"

C5_Witness ==
  \E id \in skippedQ : \E k \in Range(started) : k > id /\ running

\* C6: a step that pauses changes no job and no invocation; a job goes from
\* 'queued' to 'processing' only in a step taken with the run flag true; and
\* a job processing while paused still reaches 'done' or 'error'.
C6_PauseDoesNotInterrupt ==
  /\ [][ /\ (running /\ ~running') => (queue' = queue /\ inv' = inv)
         /\ \A i \in 1..Len(queue) : \A j \in 1..Len(queue') :
              ( /\ queue'[j].id = queue[i].id
                /\ queue[i].status = "queued"
                /\ queue'[j].status = "processing" ) => (running /\ running')
       ]_vars
  /\ \A id \in JobIds :
       (~running /\ HasStatus(id, "processing"))
          ~> (HasStatus(id, "done") \/ HasStatus(id, "error"))

C6_Witness ==
  /\ ~running
  /\ \E i, j \in 1..Len(queue) :
       /\ queue[i].status = "done"
       /\ queue[j].status = "queued"
       /\ ~dirty

\* C7: a step in which an engine call of job id fails sets that job to
\* 'error' with a non-empty message, keeps its progress, the run flag and
\* every other job, and re-arms the effect.
FailureStep(id) ==
  /\ id \in DOMAIN inv
  /\ inv[id].stage \in {"arrayBuffer", "writeFile", "exec", "readFile"}
  /\ id \notin DOMAIN inv'

C7_FailureIsolated ==
  [][ \A id \in JobIds : FailureStep(id) =>
        /\ Len(queue') = Len(queue)
        /\ running' = running
        /\ dirty'
        /\ \A i \in 1..Len(queue) :
             IF queue[i].id = id
               THEN /\ queue'[i].id = id
                    /\ queue'[i].status = "error"
                    /\ queue'[i].error # null
                    /\ queue'[i].error[1] # ""
                    /\ queue'[i].progress = queue[i].progress
                    /\ queue'[i].outputUrl = queue[i].outputUrl
               ELSE queue'[i] = queue[i] ]_vars

C7_Witness ==
  \E i \in 1..Len(queue) :
    /\ queue[i].status = "error"
    /\ queue[i].progress # 0
    /\ \E j \in 1..Len(queue) : j > i /\ queue[j].status = "processing"
    /\ running

\* C8 as stated: Clear finished removes exactly the jobs that are 'done',
\* 'error' or 'skipped'.
C8_ClearRemovesSkipped ==
  [][ clearFinished =>
        queue' = SelectSeq(queue, LAMBDA it :
                   it.status \notin {"done", "error", "skipped"}) ]_vars

\* C8 amended: Clear finished removes exactly the jobs that are 'done' or
\* 'error'; 'queued', 'processing' and 'skipped' jobs stay, in their order.
C8_ClearRemovesDoneAndError ==
  [][ clearFinished =>
        queue' = SelectSeq(queue, LAMBDA it :
                   it.status \in {"queued", "processing", "skipped"}) ]_vars

C8_Witness ==
  /\ Len(queue) < idCounter
  /\ \E i \in 1..Len(queue) : queue[i].status = "skipped"

\* C9: while the run flag stays true, every queued job reaches 'done' or
\* 'error' (or is skipped), with no further Start.
C9_QueuedEventuallyFinished ==
  \A id \in JobIds :
    (HasStatus(id, "queued") /\ running)
       ~> ( \/ HasStatus(id, "done") \/ HasStatus(id, "error")
            \/ HasStatus(id, "skipped") \/ ~running )

C9_Witness ==
  /\ running
  /\ \E i, j \in 1..Len(queue) :
       /\ i < j
       /\ queue[i].status = "error"
       /\ queue[j].status = "done"

\* C10: addFiles keeps every existing job (fields and position) and every
\* invocation, and puts the new jobs after them in the order given, each
\* 'queued' with progress 0.
C10_AppendKeepsExisting ==
  [][ \A files \in Batches : addFiles(files) =>
        /\ Len(queue') = Len(queue) + Len(files)
        /\ \A i \in 1..Len(queue) : queue'[i] = queue[i]
        /\ inv' = inv
        /\ listeners' = listeners
        /\ \A k \in 1..Len(files) :
             /\ queue'[Len(queue) + k].name = files[k]
             /\ queue'[Len(queue) + k].status = "queued"
             /\ queue'[Len(queue) + k].progress = 0 ]_vars

C10_Witness ==
  /\ Len(queue) >= 2
  /\ queue[1].status = "processing"
  /\ queue[1].progress # 0
  /\ AtStage(queue[1].id, "exec")
  /\ queue[Len(queue)].status = "queued"
  /\ queue[Len(queue)].name # queue[1].name


\* C11: while the engine is not ready no invocation exists and no job has
\* left 'queued'; once the load has failed it is not retried: the failure
\* message stays, no load is pending and ready stays false.
LoadFailed == loadingMsg = "Failed to load FFmpeg"

C11_IdleUntilReady ==
  /\ [] ( ~(ready /\ ffmpegRef) =>
            /\ DOMAIN inv = {}
            /\ started = << >>
            /\ listeners = {}
            /\ \A i \in 1..Len(queue) : queue[i].status = "queued" )
  /\ [][ LoadFailed => (LoadFailed' /\ ~ready' /\ ~loadPending') ]_vars

C11_Witness == LoadFailed /\ ~ready /\ ~loadPending /\ ~dirty

\* C12: every status change of a job is queued->processing,
\* processing->done, processing->error, queued->skipped or
\* processing->skipped; nothing leaves 'done', 'error' or 'skipped'.
LifecycleTransitions ==
  { <<"queued", "processing">>, <<"processing", "done">>,
    <<"processing", "error">>, <<"queued", "skipped">>,
    <<"processing", "skipped">> }

C12_OnlyLifecycleTransitions ==
  [][ \A i \in 1..Len(queue) : \A j \in 1..Len(queue') :
        queue'[j].id = queue[i].id =>
          \/ queue'[j].status = queue[i].status
          \/ << queue[i].status, queue'[j].status >> \in LifecycleTransitions
    ]_vars

\* C13: a progress event changes only jobs whose exec is running; a job
\* whose execution has resolved or failed is not changed by it.
C13_ProgressScoped ==
  [][ \A p \in ProgressPayloads : Progress(p) =>
        \A i \in 1..Len(queue) :
          ~AtStage(queue[i].id, "exec") =>
            (Len(queue') >= i /\ queue'[i] = queue[i]) ]_vars

\* C14: an invocation ends only after deleteFile was called for the input
\* and for the output handle, whether the job ended 'done' or 'error'.
C14_CleanupAlwaysAttempted ==
  [][ \A id \in DOMAIN inv :
        id \notin DOMAIN inv' => inv[id].stage = "deleteOut" ]_vars

\* C15: while the deleteFile calls are pending the job stays 'done' with
\* error null and its outputUrl; the settling of a deleteFile call, by
\* resolution or rejection, changes no job, and after the input handle's
\* deleteFile settles the output handle's deleteFile is called.
C15_CleanupFailureSwallowed ==
  /\ [] ( \A id \in DOMAIN inv :
            (inv[id].stage \in {"deleteIn", "deleteOut"} /\ InQueue(id)) =>
              /\ StatusOf(id) = "done"
              /\ ItemOf(queue, id).error = null
              /\ ItemOf(queue, id).outputUrl # null )
  /\ [][ \A id \in DOMAIN inv :
           /\ ( /\ inv[id].stage = "deleteIn"
                /\ (id \notin DOMAIN inv' \/ inv'[id] # inv[id]) )
                => (queue' = queue /\ AtStage(id, "deleteOut")')
           /\ ( /\ inv[id].stage = "deleteOut"
                /\ (id \notin DOMAIN inv' \/ inv'[id] # inv[id]) )
                => (queue' = queue /\ id \notin DOMAIN inv') ]_vars

C15_Witness ==
  \E i \in 1..Len(queue) :
    /\ queue[i].status = "done"
    /\ queue[i].error = null
    /\ queue[i].id \in Range(started)
    /\ queue[i].id \notin DOMAIN inv

\* C16: every job with status 'done' has progress 100.
C16_DoneHasFullProgress ==
  \A i \in 1..Len(queue) :
    queue[i].status = "done" => queue[i].progress = 100

\* C17: every job's progress is an integer in 0..100.
C17_ProgressInRange ==
  \A i \in 1..Len(queue) : queue[i].progress \in 0..100

\* C18: an invocation closes over the settings of the render that starts
\* its job; they stay as they are until exec is called, exec gets the
\* argument list resolved from them, and a settings change alters no job
\* and no invocation.
HoldsClosure(c) == c.stage \in {"arrayBuffer", "writeFile"}

C18_ArgsFromSettingsAtStart ==
  [][ /\ \A id \in (DOMAIN inv') \ (DOMAIN inv) :
           /\ inv'[id].selectedScale = selectedScale(sizePreset)
           /\ inv'[id].crf = crf
           /\ inv'[id].preset = preset
      /\ \A id \in (DOMAIN inv) \cap (DOMAIN inv') :
           /\ (HoldsClosure(inv[id]) /\ HoldsClosure(inv'[id])) =>
                /\ inv'[id].selectedScale = inv[id].selectedScale
                /\ inv'[id].crf = inv[id].crf
                /\ inv'[id].preset = inv[id].preset
           /\ (inv[id].stage = "writeFile" /\ inv'[id].stage = "exec") =>
                inv'[id].args = execArgs(id, inv[id].selectedScale,
                                         inv[id].crf, inv[id].preset)
           /\ (inv[id].stage = "exec" /\ inv'[id].stage = "exec") =>
                inv'[id].args = inv[id].args
      /\ (<< crf, preset, sizePreset >>' # << crf, preset, sizePreset >>) =>
           (queue' = queue /\ inv' = inv) ]_vars

C18_Witness ==
  \E id \in DOMAIN inv :
    /\ inv[id].stage = "exec"
    /\ inv[id].args # execArgs(id, selectedScale(sizePreset), crf, preset)

\* C19: a write for an id that is not in the queue changes nothing: a job
\* that has been removed never comes back, and a progress event leaves the
\* length, the order and every job without a listener as they are.
C19_UpdateAbsentIsNoOp ==
  [][ /\ \A id \in JobIds :
           (id < idCounter /\ id \notin Ids(queue)) => id \notin Ids(queue')
      /\ \A p \in ProgressPayloads : Progress(p) =>
           /\ Len(queue') = Len(queue)
           /\ \A i \in 1..Len(queue) :
                /\ queue'[i].id = queue[i].id
                /\ queue[i].id \notin listeners => queue'[i] = queue[i]
           /\ (listeners \cap Ids(queue) = {}) => queue' = queue ]_vars

C19_Witness ==
  /\ \E id \in listeners : id \notin Ids(queue)
  /\ \E i \in 1..Len(queue) :
       /\ AtStage(queue[i].id, "exec")
       /\ queue[i].progress \notin {0, 100}

\* C20: a job has an outputUrl only when it is 'done' and an error message
\* only when it is 'error'; a job that enters 'processing' does so with
\* error null and progress 0.
C20_FieldsAgreeWithStatus ==
  /\ [] ( \A i \in 1..Len(queue) :
            /\ queue[i].outputUrl # null => queue[i].status = "done"
            /\ queue[i].error # null => queue[i].status = "error" )
  /\ [][ \A id \in (DOMAIN inv') \ (DOMAIN inv) :
           /\ id \in Ids(queue')
           /\ ItemOf(queue', id).status = "processing"
           /\ ItemOf(queue', id).progress = 0
           /\ ItemOf(queue', id).error = null ]_vars

C20_Witness ==
  /\ \E i \in 1..Len(queue) :
       queue[i].status = "done" /\ queue[i].outputUrl # null
  /\ \E i \in 1..Len(queue) :
       queue[i].status = "error" /\ queue[i].error # null

\* C21: each job is started at most once.  No id enters 'processing' twice
\* (it occurs at most once in the history of starts, and a step that starts a
\* job starts one that was never started before), and writeFile and exec are
\* called at most once for an id, however often the effect is re-run while
\* that job's engine calls are pending.
StartCount(id) == Cardinality({ i \in 1..Len(started) : started[i] = id })

BeginsWith(msg, prefix) == Len(msg) >= 1 /\ msg[1] = prefix
NonOk(c) == c.res # null /\ ~c.res[1].ok
Refetched(c) == c.stage \in {"statusFetch", "statusJson"}
HandlerEnds == call # null /\ call' = null
HandlerThrows ==
  \/ \E m \in FetchErrs : FetchReject(m) \/ TextReject(m)
  \/ TriggerJsonReject

C22_LoadingAndErrorReporting ==
  [][ /\ (call = null /\ call' # null) => loading'
      /\ HandlerEnds => ~loading'
      /\ (HandlerEnds /\ (NonOk(call[1]) \/ HandlerThrows)) =>
           /\ BeginsWith(message', "Error: ")
           /\ ~Refetched(call[1])
    ]_vars

====
